---- MODULE Spec2Model ----
(***************************************************************************)
(* Bloodtide balance engine: probability deck, affinity thresholds, stat   *)
(* composition, 3-tier crit resolution, creature progression and the       *)
(* Director.  Numbers that are f64 in the game are fixed-point integers    *)
(* here: card weights are in hundredths, percentages are whole percents    *)
(* unless a definition says otherwise.                                     *)
(*                                                                         *)
(* Each component has its own specification (SpecDeck, SpecAffinity, ...)  *)
(* over the same variables; a component's actions leave the other          *)
(* components' variables unchanged.                                        *)
(***************************************************************************)
EXTENDS Integers, Sequences, FiniteSets, Bags, TLC

VARIABLES
    cards,          \* PlayerDeck.cards: sequence of DeckCard
    total_weight,   \* PlayerDeck.total_weight (hundredths)
    lastRoll,       \* result of the most recent roll() on the current deck
    lastRegister,   \* the register() call that was the last deck operation, if any
    rollsSinceCreature, \* history: consecutive rolls that returned no creature card
    affinity,       \* AffinityState: accumulated affinity per color
    ledger,         \* ArtifactBuffs: the artifacts acquired, in order
    lastAttack,     \* CritResult of the most recent attack, with its inputs
    creatures,      \* the alive creature entities: a bag of [kind, level, kills]
    respawnQueue,   \* RespawnQueue: a bag of RespawnEntry [kind, remaining]
    lastEvo,        \* outcome of the most recent evolution attempt
    lastRespawned,  \* the creatures the most recent respawn tick created
    director,       \* the Director resource
    plan,           \* the spawn plan the Director emitted last
    lastTick,       \* whether the most recent Director tick had telemetry
    phase,          \* position in the system execution order of the running frame
    ran,            \* the systems that have completed in the running frame
    enemies_alive,  \* Director.enemies_alive: the live enemies
    max_enemies,    \* DebugSettings.max_enemies: the configured enemy cap
    lastSpawn,      \* the batch of the most recent spawn event and what it spawned
    enemyHpExponent,        \* App state: the enemy HP exponent, in hundredths
    pc,                     \* where calculateGameData stands ("idle" once rendered)
    currentWave,            \* calculateGameData: the for loop's wave
    cumulativeKillsNeeded,  \* calculateGameData: the while loop's running sum
    playerLevel,            \* calculateGameData: the while loop's level
    data,                   \* calculateGameData: the rows pushed so far
    overwhelmWave           \* App: the wave of the warning, 0 for undefined

deckVars == << cards, total_weight, lastRoll, lastRegister, rollsSinceCreature >>
combatVars == << affinity, ledger, lastAttack >>
progVars == << creatures, respawnQueue, lastEvo, lastRespawned >>
directorVars == << director, plan, lastTick >>
tickVars == << phase, ran >>
spawnerVars == << enemies_alive, max_enemies, lastSpawn >>
appVars == << enemyHpExponent, pc, currentWave, cumulativeKillsNeeded, playerLevel, data,
              overwhelmWave >>
vars == << cards, total_weight, lastRoll, lastRegister, rollsSinceCreature, affinity, ledger, lastAttack,
           creatures, respawnQueue, lastEvo, lastRespawned, director, plan, lastTick,
           phase, ran, enemies_alive, max_enemies, lastSpawn,
           enemyHpExponent, pc, currentWave, cumulativeKillsNeeded, playerLevel, data,
           overwhelmWave >>

Max(a, b) == IF a >= b THEN a ELSE b
Min(a, b) == IF a <= b THEN a ELSE b

(***************************************************************************)
(* Probability deck                                                        *)
(***************************************************************************)

\* Bound: number of cards a deck holds in the model.
MaxCards == 3

\* The three card types, one authored card of each.
CardIds == { "fire_imp", "ember_staff", "molten_core" }

CardTypeOf(id) ==
    CASE id = "fire_imp"    -> "Creature"
      [] id = "ember_staff" -> "Weapon"
      [] id = "molten_core" -> "Artifact"

\* Weights offered at registration (whole units); the non-positive ones are malformed.
RegisterWeights == { -5, 0, 25, 75 }

\* adjust_weight: ceiling of the cumulative adjustment of one card, in percent.
ADJUST_CEILING_PCT == 50

\* delta_pct values offered to adjust_weight.
AdjustDeltas == { 20, 50 }

NoRoll == [ r |-> -1, pick |-> 0, err |-> "none" ]
NoRegister == [ id |-> "", weight |-> 0, err |-> "none" ]

\* A card's live weight in hundredths: registered weight scaled by (100 + adjustment)%.
CardWeight(base, adj) == base * (100 + adj)

RECURSIVE SumWeights(_)
SumWeights(cs) ==
    IF cs = << >> THEN 0 ELSE cs[1].weight + SumWeights(Tail(cs))

DeckIds(cs) == { cs[i].id : i \in 1..Len(cs) }

\* register(card) appending whatever the weight.
RegisterUnchecked(id, w) ==
    /\ Len(cards) < MaxCards
    /\ id \notin DeckIds(cards)
    /\ cards' = Append(cards, [ id |-> id, card_type |-> CardTypeOf(id),
                                base |-> w, adj |-> 0, weight |-> CardWeight(w, 0) ])
    /\ total_weight' = total_weight + CardWeight(w, 0)
    /\ lastRoll' = NoRoll
    /\ lastRegister' = [ id |-> id, weight |-> w, err |-> "ok" ]
    /\ UNCHANGED rollsSinceCreature

\* register(card): malformed weights are rejected, otherwise the card is appended
\* and total_weight is maintained incrementally.
Register(id, w) ==
    /\ Len(cards) < MaxCards
    /\ id \notin DeckIds(cards)
    /\ lastRegister' = [ id |-> id, weight |-> w,
                         err |-> IF w <= 0 THEN "InvalidWeightError" ELSE "ok" ]
    /\ UNCHANGED rollsSinceCreature
    /\ IF w <= 0
         THEN /\ lastRoll' = [ r |-> -1, pick |-> 0, err |-> "InvalidWeightError" ]
              /\ UNCHANGED << cards, total_weight >>
         ELSE /\ cards' = Append(cards, [ id |-> id, card_type |-> CardTypeOf(id),
                                          base |-> w, adj |-> 0,
                                          weight |-> CardWeight(w, 0) ])
              /\ total_weight' = total_weight + CardWeight(w, 0)
              /\ lastRoll' = NoRoll

\* The adjustment added up without a ceiling.
AdjustedCardsUnclamped(cs, i, delta) ==
    LET a == cs[i].adj + delta
    IN  [ cs EXCEPT ![i].adj = a, ![i].weight = CardWeight(cs[i].base, a) ]

\* The deck after adjust_weight(id, delta_pct) on card i: the cumulative adjustment
\* is clamped to the ceiling and the weight follows it.
AdjustedCards(cs, i, delta) ==
    LET a == Min(cs[i].adj + delta, ADJUST_CEILING_PCT)
    IN  [ cs EXCEPT ![i].adj = a, ![i].weight = CardWeight(cs[i].base, a) ]

\* The total left as it was.
StaleTotal(cs, old) == old

\* total_weight after a mutation that recomputes it.
RecomputedTotal(cs, old) == SumWeights(cs)

AdjustWeight(i, delta) ==
    /\ i \in 1..Len(cards)
    /\ cards' = AdjustedCards(cards, i, delta)
    /\ total_weight' = RecomputedTotal(cards', total_weight)
    /\ lastRoll' = NoRoll
    /\ lastRegister' = NoRegister
    /\ UNCHANGED rollsSinceCreature

\* The scan with the closed comparison roll <= cumulative.
RECURSIVE RollScanInclusive(_, _, _, _)
RollScanInclusive(cs, roll, i, cumulative) ==
    IF i > Len(cs) THEN 0
    ELSE IF roll <= cumulative + cs[i].weight THEN i
    ELSE RollScanInclusive(cs, roll, i + 1, cumulative + cs[i].weight)

\* The weighted scan of roll(): accumulate weights in deck order and return the
\* first card with roll < cumulative (0 when the scan falls off the end).
RECURSIVE RollScan(_, _, _, _)
RollScan(cs, roll, i, cumulative) ==
    IF i > Len(cs) THEN 0
    ELSE IF roll < cumulative + cs[i].weight THEN i
    ELSE RollScan(cs, roll, i + 1, cumulative + cs[i].weight)

\* Cumulative weight of the first k cards.
CumWeight(cs, k) == SumWeights(SubSeq(cs, 1, k))

\* The draws tried: both ends of [0, total_weight) and both sides of every card boundary.
RollDraws ==
    { r \in {0, total_weight - 1}
            \cup { CumWeight(cards, k) : k \in 1..Len(cards) }
            \cup { CumWeight(cards, k) - 1 : k \in 1..Len(cards) } :
        r >= 0 /\ r < total_weight }

\* Pity System: "10 rolls without creature: next roll = 100% creature".
PITY_ROLLS == 10

\* History of the rolls: the streak of rolls without a creature card after a roll
\* that picked card number pick (0: no card), counted up to PITY_ROLLS.
NextRollsSinceCreature(streak, cs, pick) ==
    IF pick = 0 THEN streak
    ELSE IF cs[pick].card_type = "Creature" THEN 0
    ELSE Min(streak + 1, PITY_ROLLS)

\* The condition of EmptyDeckError: no positive total weight to draw from.
DeckIsEmpty(total) == total <= 0

\* roll() going into the draw and the scan whatever the total weight.
RollUnguarded ==
    /\ UNCHANGED << cards, total_weight >>
    /\ lastRegister' = NoRegister
    /\ \E r \in RollDraws \cup { 0 } :
         lastRoll' = [ r |-> r, pick |-> RollScan(cards, r, 1, 0), err |-> "ok" ]
    /\ rollsSinceCreature' = NextRollsSinceCreature(rollsSinceCreature, cards, lastRoll'.pick)

\* roll(): EmptyDeckError without a positive total weight, otherwise a draw in
\* [0, total_weight) and the weighted scan.
Roll ==
    /\ UNCHANGED << cards, total_weight >>
    /\ lastRegister' = NoRegister
    /\ IF DeckIsEmpty(total_weight)
         THEN lastRoll' = [ r |-> -1, pick |-> 0, err |-> "EmptyDeckError" ]
         ELSE \E r \in RollDraws :
                lastRoll' = [ r |-> r, pick |-> RollScan(cards, r, 1, 0), err |-> "ok" ]
    /\ rollsSinceCreature' = NextRollsSinceCreature(rollsSinceCreature, cards, lastRoll'.pick)

(***************************************************************************)
(* Exact decimal arithmetic for damage values.  A natural number is a      *)
(* little-endian sequence of base-10000 limbs without leading zero limbs;  *)
(* a damage value is a record [n, k] standing for n / 10^k.                *)
(***************************************************************************)

RECURSIVE BigFromNat(_)
BigFromNat(n) ==
    IF n = 0 THEN << >> ELSE << n % 10000 >> \o BigFromNat(n \div 10000)

RECURSIVE BigMulLimb(_, _, _)
BigMulLimb(a, d, carry) ==
    IF a = << >> THEN BigFromNat(carry)
    ELSE LET t == a[1] * d + carry
         IN  << t % 10000 >> \o BigMulLimb(Tail(a), d, t \div 10000)

RECURSIVE BigAdd(_, _, _)
BigAdd(a, b, carry) ==
    IF a = << >> /\ b = << >> THEN BigFromNat(carry)
    ELSE LET x == IF a = << >> THEN 0 ELSE a[1]
             y == IF b = << >> THEN 0 ELSE b[1]
             t == x + y + carry
         IN  << t % 10000 >>
               \o BigAdd(IF a = << >> THEN a ELSE Tail(a),
                         IF b = << >> THEN b ELSE Tail(b), t \div 10000)

RECURSIVE BigStrip(_)
BigStrip(a) ==
    IF a /= << >> /\ a[Len(a)] = 0 THEN BigStrip(SubSeq(a, 1, Len(a) - 1)) ELSE a

RECURSIVE BigMul(_, _)
BigMul(a, b) ==
    IF a = << >> \/ b = << >> THEN << >>
    ELSE BigStrip(BigAdd(BigMulLimb(a, b[1], 0), << 0 >> \o BigMul(a, Tail(b)), 0))

RECURSIVE BigLessFrom(_, _, _)
BigLessFrom(a, b, i) ==
    IF i = 0 THEN FALSE
    ELSE IF a[i] /= b[i] THEN a[i] < b[i]
    ELSE BigLessFrom(a, b, i - 1)

BigLess(a, b) ==
    IF Len(a) /= Len(b) THEN Len(a) < Len(b) ELSE BigLessFrom(a, b, Len(a))

\* a * 10^k: whole limbs are shifted in, the rest is one limb multiplication.
BigShift10(a, k) ==
    IF a = << >> THEN << >>
    ELSE [ i \in 1..(k \div 4) |-> 0 ] \o BigMulLimb(a, << 1, 10, 100, 1000 >>[(k % 4) + 1], 0)

BigPow10(k) == BigShift10(<< 1 >>, k)

\* a * n for a machine number n.
BigMulNat(a, n) ==
    IF n = 0 THEN << >>
    ELSE IF n < 10000 THEN BigMulLimb(a, n, 0)
    ELSE BigMul(a, BigFromNat(n))

DecFromNat(n) == [ n |-> BigFromNat(n), k |-> 0 ]
\* n / 10^k for a machine number n, without trailing zero decimals.
RECURSIVE DecFromScaled(_, _)
DecFromScaled(n, k) ==
    IF k > 0 /\ n % 10 = 0 THEN DecFromScaled(n \div 10, k - 1)
    ELSE [ n |-> BigFromNat(n), k |-> k ]
DecMul(x, y) == [ n |-> BigMul(x.n, y.n), k |-> x.k + y.k ]
\* x * num / 10^kden
DecScale(x, num, kden) == [ n |-> BigMulNat(x.n, num), k |-> x.k + kden ]
DecLess(x, y) ==
    LET m == IF x.k < y.k THEN x.k ELSE y.k
    IN  BigLess(BigShift10(x.n, y.k - m), BigShift10(y.n, x.k - m))
DecEq(x, y) == ~DecLess(x, y) /\ ~DecLess(y, x)
DecMin(x, y) == IF DecLess(y, x) THEN y ELSE x
DecAdd(x, y) ==
    LET k == IF x.k < y.k THEN y.k ELSE x.k
    IN  [ n |-> BigAdd(BigShift10(x.n, k - x.k), BigShift10(y.n, k - y.k), 0), k |-> k ]
RECURSIVE BigPowNat(_, _)
BigPowNat(b, e) == IF e = 0 THEN << 1 >> ELSE BigMulNat(BigPowNat(b, e - 1), b)

(***************************************************************************)
(* Affinity tracker (resources/affinity.rs, assets/data/affinity.toml)     *)
(***************************************************************************)

Colors == { "red", "blue" }

\* Bound: largest accumulated affinity of one color in the model.
MaxAffinity == 110

\* Point above which the overflow term applies.
OVERFLOW_START == 100

Threshold(min, dmg, aspd, t2, t3) ==
    [ min |-> min, damage_bonus |-> dmg, attack_speed_bonus |-> aspd, hp_bonus |-> 0,
      crit_t1_bonus |-> 0, crit_t2_unlock |-> t2, crit_t3_unlock |-> t3 ]

\* affinity.toml.  The crit_t3_unlock column is TRUE at red's top threshold.
Thresholds(color) ==
    IF color = "red"
      THEN << Threshold(0, 0, 0, FALSE, FALSE),
              Threshold(11, 10, 0, FALSE, FALSE),
              Threshold(26, 25, 10, FALSE, FALSE),
              Threshold(51, 50, 10, TRUE, FALSE),
              Threshold(76, 100, 10, TRUE, TRUE) >>
      ELSE << Threshold(0, 0, 0, FALSE, FALSE),
              Threshold(11, 10, 0, FALSE, FALSE),
              Threshold(26, 20, 0, FALSE, FALSE),
              Threshold(51, 30, 0, TRUE, FALSE),
              Threshold(76, 50, 0, TRUE, FALSE) >>

\* overflow_bonus_per_point, in tenths of a percent of damage per point.
OverflowPerPointX10(color) == IF color = "red" THEN 10 ELSE 5

\* The lookup taking a threshold only once the value is above its min.
RECURSIVE ThresholdScanExclusive(_, _, _, _)
ThresholdScanExclusive(ts, value, i, best) ==
    IF i > Len(ts) THEN best
    ELSE ThresholdScanExclusive(ts, value, i + 1, IF value > ts[i].min THEN i ELSE best)

\* The threshold lookup: scan the ordered thresholds and keep the last one whose
\* min the value has reached.
RECURSIVE ThresholdScan(_, _, _, _)
ThresholdScan(ts, value, i, best) ==
    IF i > Len(ts) THEN best
    ELSE ThresholdScan(ts, value, i + 1, IF value >= ts[i].min THEN i ELSE best)

\* get_affinity_bonuses / bonus_for: the threshold's bundle plus the overflow term.
\* damage_x10 is in tenths of a percent, the other fields in whole percents.
BonusFor(color, value) ==
    LET t == Thresholds(color)[ThresholdScan(Thresholds(color), value, 1, 1)]
    IN  [ damage_x10 |-> t.damage_bonus * 10
                          + OverflowPerPointX10(color) * Max(0, value - OVERFLOW_START),
          attack_speed_bonus |-> t.attack_speed_bonus,
          hp_bonus |-> t.hp_bonus,
          crit_t1_bonus |-> t.crit_t1_bonus,
          crit_t2_unlock |-> t.crit_t2_unlock,
          crit_t3_unlock |-> t.crit_t3_unlock ]

\* Amounts offered to add()/remove().
AffinityAmounts == { 1, 25 }

NoAttack ==
    [ attacker |-> "none", level |-> 0, crit_chance |-> << 0, 0, 0 >>,
      draws |-> << 0, 0, 0 >>, tier |-> "None",
      base_damage |-> DecFromNat(0), final_damage |-> DecFromNat(0) ]

\* AffinityState::add / ::remove.
AffinityAdd(color, amount) ==
    /\ affinity[color] + amount <= MaxAffinity
    /\ affinity' = [ affinity EXCEPT ![color] = @ + amount ]
    /\ lastAttack' = NoAttack
    /\ UNCHANGED ledger

AffinityRemove(color, amount) ==
    /\ amount <= affinity[color]
    /\ affinity' = [ affinity EXCEPT ![color] = @ - amount ]
    /\ lastAttack' = NoAttack
    /\ UNCHANGED ledger

\* Weapons of the red roster: affinity_amount.
Weapons == { "inferno_blade", "sun_scepter" }

WeaponAffinity(w) ==
    CASE w = "inferno_blade" -> 25
      [] w = "sun_scepter"   -> 50

\* spawn_weapon: an acquired weapon adds its affinity_amount to its color.
EquipWeapon(w) == AffinityAdd("red", WeaponAffinity(w))

(***************************************************************************)
(* Bonus ledger (resources/artifact_buffs.rs, assets/data/artifacts.toml)  *)
(***************************************************************************)

\* Bound: number of artifacts acquired in the model.
MaxLedger == 2

StatBonuses(dmg, aspd, hp, c1, c2, c3) ==
    [ damage_bonus |-> dmg, attack_speed_bonus |-> aspd, hp_bonus |-> hp,
      crit_t1_bonus |-> c1, crit_t2_bonus |-> c2, crit_t3_bonus |-> c3 ]

Artifacts == { "chaos_ember", "pyromaniac", "burning_blood" }

\* The whole red artifact table, offered when the ledger is exercised on its own.
LedgerArtifacts ==
    Artifacts \cup { "molten_core", "heart_of_flame", "volcanic_heart", "ember_soul",
                     "inferno_plate", "hound_collar", "phoenix_feather" }

\* artifacts.toml: target scope, target and stat modifiers of each artifact.
ArtifactDef(id) ==
    CASE id = "chaos_ember" ->
           [ scope |-> "color", target |-> "red", bonus |-> StatBonuses(0, 0, 0, 0, 5, 0) ]
      [] id = "pyromaniac" ->
           [ scope |-> "color", target |-> "red", bonus |-> StatBonuses(0, 0, 0, 0, 0, 3) ]
      [] id = "burning_blood" ->
           [ scope |-> "global", target |-> "", bonus |-> StatBonuses(10, 0, -10, 0, 0, 0) ]
      [] id = "molten_core" ->
           [ scope |-> "color", target |-> "red", bonus |-> StatBonuses(20, 0, 0, 0, 0, 0) ]
      [] id = "heart_of_flame" ->
           [ scope |-> "color", target |-> "red", bonus |-> StatBonuses(0, 15, 0, 0, 0, 0) ]
      [] id = "volcanic_heart" ->
           [ scope |-> "color", target |-> "red", bonus |-> StatBonuses(50, 0, 0, 0, 0, 0) ]
      [] id = "ember_soul" ->
           [ scope |-> "type", target |-> "ranged", bonus |-> StatBonuses(25, 0, 0, 0, 0, 0) ]
      [] id = "inferno_plate" ->
           [ scope |-> "type", target |-> "melee", bonus |-> StatBonuses(0, 0, 30, 0, 0, 0) ]
      [] id = "hound_collar" ->
           [ scope |-> "creature", target |-> "ember_hound",
             bonus |-> StatBonuses(100, 0, 0, 0, 0, 0) ]
      [] id = "phoenix_feather" ->
           [ scope |-> "creature", target |-> "phoenix",
             bonus |-> StatBonuses(0, 0, 0, 0, 0, 0) ]

\* The filter without the type bucket.
ScopeMatchesNoType(def, color, type, id) ==
    \/ def.scope = "global"
    \/ def.scope = "color" /\ def.target = color
    \/ def.scope = "creature" /\ def.target = id

\* target_scope filtering: which acquired artifacts apply to a creature.
ScopeMatches(def, color, type, id) ==
    \/ def.scope = "global"
    \/ def.scope = "color" /\ def.target = color
    \/ def.scope = "type" /\ def.target = type
    \/ def.scope = "creature" /\ def.target = id

\* ArtifactBuffs::get_total_bonuses: every acquired artifact that applies to a
\* creature of this color, type and id adds its modifiers, stat by stat.
RECURSIVE SumStat(_, _, _, _, _)
SumStat(led, stat, color, type, id) ==
    IF led = << >> THEN 0
    ELSE (IF ScopeMatches(ArtifactDef(led[1]), color, type, id)
            THEN ArtifactDef(led[1]).bonus[stat] ELSE 0)
         + SumStat(Tail(led), stat, color, type, id)

\* The totals with every negative total taken as 0.
TotalForClamped(led, color, type, id) ==
    [ stat \in DOMAIN StatBonuses(0, 0, 0, 0, 0, 0) |->
        Max(0, SumStat(led, stat, color, type, id)) ]

TotalFor(led, color, type, id) ==
    [ stat \in DOMAIN StatBonuses(0, 0, 0, 0, 0, 0) |-> SumStat(led, stat, color, type, id) ]

\* ArtifactBuffs::apply_artifact.
AcquireArtifact(a) ==
    /\ Len(ledger) < MaxLedger
    /\ ledger' = Append(ledger, a)
    /\ lastAttack' = NoAttack
    /\ UNCHANGED affinity

(***************************************************************************)
(* Crit resolver (math/crit.rs)                                            *)
(***************************************************************************)

\* MAX_DAMAGE_CAP = 1e15, as its decimal exponent.
MAX_DAMAGE_CAP_EXP10 == 15

MAX_DAMAGE_CAP == [ n |-> BigPow10(MAX_DAMAGE_CAP_EXP10), k |-> 0 ]

\* The tiers looked at from tier 1 up.
CritTierLowestFirst(c, u) ==
    IF u[1] < c[1] THEN "Normal"
    ELSE IF u[2] < c[2] THEN "Mega"
    ELSE IF u[3] < c[3] THEN "Super"
    ELSE "None"

\* The tier an attack resolves to: each tier has its own roll, tier 3 is looked at
\* first and tier 1 last.
CritTier(c, u) ==
    IF u[3] < c[3] THEN "Super"
    ELSE IF u[2] < c[2] THEN "Mega"
    ELSE IF u[1] < c[1] THEN "Normal"
    ELSE "None"

\* overflow_bonus of a Normal crit, in percent: the part of the tier-1 chance above 100.
CritOverflowBonus(crit_t1) == Max(0, crit_t1 - 100)

\* The damage of each tier with the Super crit left uncapped.
CritDamageUncapped(tier, final_base, c) ==
    CASE tier = "Super"  ->
           LET squared == DecMul(final_base, final_base) IN DecMul(squared, squared)
      [] tier = "Mega"   -> DecMul(final_base, final_base)
      [] tier = "Normal" -> DecScale(final_base, 2 * (100 + CritOverflowBonus(c[1])), 2)
      [] OTHER           -> final_base

\* The damage of each tier with the overflow added to the multiplier instead of
\* scaling it: 2.2x at a chance of 120.
CritDamageOverflowAdded(tier, final_base, c) ==
    CASE tier = "Super"  ->
           LET squared == DecMul(final_base, final_base)
           IN  DecMin(DecMul(squared, squared), MAX_DAMAGE_CAP)
      [] tier = "Mega"   -> DecMul(final_base, final_base)
      [] tier = "Normal" -> DecScale(final_base, 200 + CritOverflowBonus(c[1]), 2)
      [] OTHER           -> final_base

\* The damage of each tier: final_base^4 capped, final_base^2,
\* final_base * 2 * (1 + overflow_bonus), final_base.
CritDamage(tier, final_base, c) ==
    CASE tier = "Super"  ->
           LET squared == DecMul(final_base, final_base)
           IN  DecMin(DecMul(squared, squared), MAX_DAMAGE_CAP)
      [] tier = "Mega"   -> DecMul(final_base, final_base)
      [] tier = "Normal" -> DecScale(final_base, 2 * (100 + CritOverflowBonus(c[1])), 2)
      [] OTHER           -> final_base

\* calculate_damage_with_crits(base_damage, crit_t1, crit_t2, crit_t3) -> CritResult,
\* with the three rolls u made explicit.
CalculateDamageWithCrits(final_base, c, u) ==
    LET tier == CritTier(c, u)
    IN  [ tier |-> tier, final_damage |-> CritDamage(tier, final_base, c),
          base_damage |-> final_base ]

\* The rolls tried, out of [0, 100).
CritDraws == { 0, 4, 5, 99 }

\* Inputs of the resolver when it is exercised on its own.
CritChances == { 0, 5, 100, 120 }
CritBaseDamages == { 15, 6000 }

\* The resolver on its own: the inputs are those held in lastAttack, the rolls are drawn.
ResolveAttack ==
    /\ lastAttack.attacker = "direct" /\ lastAttack.tier = "Pending"
    /\ \E u1, u2, u3 \in CritDraws :
         lastAttack' =
           LET res == CalculateDamageWithCrits(lastAttack.base_damage,
                                               lastAttack.crit_chance, << u1, u2, u3 >>)
           IN  [ lastAttack EXCEPT !.draws = << u1, u2, u3 >>,
                                   !.tier = res.tier,
                                   !.final_damage = res.final_damage ]
    /\ UNCHANGED << affinity, ledger >>

(***************************************************************************)
(* Creature data (assets/data/creatures.toml) and stat composition         *)
(***************************************************************************)

Kinds == { "fire_imp", "flame_fiend", "inferno_demon" }

\* creatures.toml.  fire_imp is the documented entry; each evolved stage of its
\* line doubles the base stats of the stage below and carries its own crit chances.
CreatureDef(kind) ==
    CASE kind = "fire_imp" ->
           [ color |-> "red", tier |-> 1, creature_type |-> "ranged",
             base_damage |-> 15, attack_speed |-> 1, base_hp |-> 50,
             crit |-> << 5, 0, 0 >>, evolves_into |-> "flame_fiend",
             evolution_count |-> 3, max_level |-> 10 ]
      [] kind = "flame_fiend" ->
           [ color |-> "red", tier |-> 2, creature_type |-> "ranged",
             base_damage |-> 30, attack_speed |-> 1, base_hp |-> 100,
             crit |-> << 10, 5, 0 >>, evolves_into |-> "inferno_demon",
             evolution_count |-> 3, max_level |-> 10 ]
      [] kind = "inferno_demon" ->
           [ color |-> "red", tier |-> 3, creature_type |-> "ranged",
             base_damage |-> 60, attack_speed |-> 1, base_hp |-> 200,
             crit |-> << 15, 10, 5 >>, evolves_into |-> "",
             evolution_count |-> 3, max_level |-> 10 ]

\* The additive chances without the unlock gates.
EffectiveCritUngated(base, aff, led) ==
    << base[1] + aff.crit_t1_bonus + led.crit_t1_bonus,
       base[2] + led.crit_t2_bonus,
       base[3] + led.crit_t3_bonus >>

\* Crit chances are additive; tier 2 and tier 3 need the affinity unlock to be
\* active at all.
EffectiveCrit(base, aff, led) ==
    << base[1] + aff.crit_t1_bonus + led.crit_t1_bonus,
       IF aff.crit_t2_unlock THEN base[2] + led.crit_t2_bonus ELSE 0,
       IF aff.crit_t3_unlock THEN base[3] + led.crit_t3_bonus ELSE 0 >>

\* Effective stats of a creature of this kind and level under the current
\* affinity and artifacts: base * (1 + affinity%) * (1 + artifact%) * (1 + 0.10 level).
EffectiveDamage(kind, level) ==
    LET d   == CreatureDef(kind)
        aff == BonusFor(d.color, affinity[d.color])
        led == TotalFor(ledger, d.color, d.creature_type, kind)
    IN  DecFromScaled(d.base_damage * (1000 + aff.damage_x10)
                        * (100 + led.damage_bonus) * (10 + level), 6)

EffectiveCritChance(kind) ==
    LET d == CreatureDef(kind)
    IN  EffectiveCrit(d.crit, BonusFor(d.color, affinity[d.color]),
                      TotalFor(ledger, d.color, d.creature_type, kind))

Effective(kind, level) ==
    LET d   == CreatureDef(kind)
        aff == BonusFor(d.color, affinity[d.color])
        led == TotalFor(ledger, d.color, d.creature_type, kind)
    IN  [ damage |-> EffectiveDamage(kind, level),
          attack_speed |-> DecScale(DecScale(DecFromNat(d.attack_speed),
                                             100 + aff.attack_speed_bonus, 2),
                                    100 + led.attack_speed_bonus, 2),
          hp |-> DecScale(DecScale(DecFromNat(d.base_hp), 100 + aff.hp_bonus, 2),
                          100 + led.hp_bonus, 2),
          crit_chance |-> EffectiveCritChance(kind) ]

\* Creature levels an attacker is tried at, and the rolls of its attacks.
AttackLevels == { 1, 5 }
AttackDraws == { 0, 99 }

\* creature_attack_system for one attack: compose the stats afresh, then resolve
\* the crit tier and the damage.
AttackResult(kind, level, crit, damage, u) ==
    LET res == CalculateDamageWithCrits(damage, crit, u)
    IN  [ attacker |-> kind, level |-> level, crit_chance |-> crit, draws |-> u,
          tier |-> res.tier, base_damage |-> res.base_damage,
          final_damage |-> res.final_damage ]

\* The three rolls of an attack whose stats are composed.
AttackRolls(kind, level, crit, damage) ==
    \E u1, u2, u3 \in AttackDraws :
        lastAttack' = AttackResult(kind, level, crit, damage, << u1, u2, u3 >>)

Attack(kind, level) ==
    /\ AttackRolls(kind, level, EffectiveCritChance(kind), EffectiveDamage(kind, level))
    /\ UNCHANGED << affinity, ledger >>

(***************************************************************************)
(* Creature progression (systems/creature_xp.rs, systems/death.rs)         *)
(***************************************************************************)

\* Bound: creatures alive or waiting to respawn.
MaxCreatures == 4

\* Bound: kills one creature accumulates in the model.
MaxKills == 25

\* Bound: seconds of game time one respawn tick advances.
RespawnTickSeconds == 15

\* Kill credits delivered to one creature in one run of creature_xp_system.
KillBatches == { 10, 25 }

\* kills_per_level of the fire_imp line.
KillsPerLevel == << 10, 25, 50, 100, 150, 200, 300, 400, 500 >>

\* Tier-based respawn delay in seconds.
RespawnTime(tier) ==
    CASE tier = 1 -> 20
      [] tier = 2 -> 30
      [] OTHER    -> 45

\* A creature as spawn_creature makes it: level 1, no kills, and the base damage
\* and the maximum hp of its kind.
Fresh(kind) ==
    [ kind |-> kind, level |-> 1, kills |-> 0,
      base_damage |-> DecFromNat(CreatureDef(kind).base_damage),
      max_hp |-> DecFromNat(CreatureDef(kind).base_hp) ]

NoEvo == [ kind |-> "", policy |-> "", result |-> "none" ]

One(x) == SetToBag({ x })

AliveOf(kind) == { e \in BagToSet(creatures) : e.kind = kind }

RECURSIVE BagCountOver(_, _)
BagCountOver(bag, S) ==
    IF S = {} THEN 0
    ELSE LET x == CHOOSE y \in S : TRUE
         IN  CopiesIn(x, bag) + BagCountOver(bag, S \ { x })

\* Number of alive creatures of a kind.
CountOf(kind) == BagCountOver(creatures, AliveOf(kind))

Population == BagCardinality(creatures) + BagCardinality(respawnQueue)

\* spawn_creature: a new creature starts at level 1 with no kills.
SpawnCreature(kind) ==
    /\ Population < MaxCreatures
    /\ creatures' = creatures (+) One(Fresh(kind))
    /\ lastEvo' = NoEvo
    /\ lastRespawned' = EmptyBag
    /\ UNCHANGED respawnQueue

\* +10% of a base stat.
LevelUpStat(x) == DecScale(x, 11, 1)

\* A level-up only once the kills exceed kills_for_next_level.
CreditOneStrict(e) ==
    LET k == e.kills + 1
    IN  IF /\ e.level < CreatureDef(e.kind).max_level
           /\ e.level <= Len(KillsPerLevel)
           /\ k > KillsPerLevel[e.level]
          THEN [ e EXCEPT !.kills = k, !.level = @ + 1,
                          !.base_damage = LevelUpStat(@), !.max_hp = LevelUpStat(@) ]
          ELSE [ e EXCEPT !.kills = k ]

\* One PendingKillCredit: the kill is counted and the level rises when the kills
\* reach kills_for_next_level, up to max_level.  On level up the creature gets
\* +10% base_damage and +10% max_hp.
CreditOne(e) ==
    LET k == e.kills + 1
    IN  IF /\ e.level < CreatureDef(e.kind).max_level
           /\ e.level <= Len(KillsPerLevel)
           /\ k >= KillsPerLevel[e.level]
          THEN [ e EXCEPT !.kills = k, !.level = @ + 1,
                          !.base_damage = LevelUpStat(@), !.max_hp = LevelUpStat(@) ]
          ELSE [ e EXCEPT !.kills = k ]

RECURSIVE CreditMany(_, _)
CreditMany(e, n) == IF n = 0 THEN e ELSE CreditMany(CreditOne(e), n - 1)

\* creature_xp_system: the pending kill credits of one creature are processed.
CreatureXp(e, n) ==
    /\ e \in BagToSet(creatures)
    /\ creatures' = (creatures (-) One(e)) (+) One(CreditMany(e, n))
    /\ lastEvo' = NoEvo
    /\ lastRespawned' = EmptyBag
    /\ UNCHANGED respawnQueue

KillCredit(e, n) == e.kills + n <= MaxKills /\ CreatureXp(e, n)

\* One creature followed through its whole level table.
MaxLevelingKills == 510
LevelingBatches == { 1, 10, 25 }

\* An entry with the tier-1 delay whatever the tier.
RespawnEntryFlat(e) == [ kind |-> e.kind, remaining |-> RespawnTime(1) ]

\* The RespawnEntry queued for a dead creature.
RespawnEntry(e) == [ kind |-> e.kind, remaining |-> RespawnTime(CreatureDef(e.kind).tier) ]

\* creature_death_system: a creature whose HP reached 0 is despawned and queued.
CreatureDeath(e) ==
    /\ e \in BagToSet(creatures)
    /\ creatures' = creatures (-) One(e)
    /\ respawnQueue' = respawnQueue (+) One(RespawnEntry(e))
    /\ lastEvo' = NoEvo
    /\ lastRespawned' = EmptyBag

\* respawn_system, one tick: every timer advances; the entries that expired are
\* respawned as new creatures, the others stay queued.
Expired(q) == q.remaining - RespawnTickSeconds <= 0

RECURSIVE TickQueue(_, _)
TickQueue(queue, S) ==
    IF S = {} THEN EmptyBag
    ELSE LET q == CHOOSE y \in S : TRUE
             rest == TickQueue(queue, S \ { q })
             n == CopiesIn(q, queue)
             moved == [ q EXCEPT !.remaining = @ - RespawnTickSeconds ]
         IN  IF Expired(q) THEN rest
             ELSE rest (+) [ x \in { moved } |-> n ]

RECURSIVE TickSpawns(_, _)
TickSpawns(queue, S) ==
    IF S = {} THEN EmptyBag
    ELSE LET q == CHOOSE y \in S : TRUE
             rest == TickSpawns(queue, S \ { q })
         IN  IF Expired(q) THEN rest (+) [ x \in { Fresh(q.kind) } |-> CopiesIn(q, queue) ]
             ELSE rest

RespawnTick ==
    /\ respawnQueue /= EmptyBag
    /\ respawnQueue' = TickQueue(respawnQueue, BagToSet(respawnQueue))
    /\ lastRespawned' = TickSpawns(respawnQueue, BagToSet(respawnQueue))
    /\ creatures' = creatures (+) lastRespawned'
    /\ lastEvo' = NoEvo

\* Number of creatures of a kind in a bag of creatures.
CountIn(bag, kind) == BagCountOver(bag, { e \in BagToSet(bag) : e.kind = kind })

\* A group taken as ready only above evolution_count.
EvolutionReadyStrict(kind) ==
    /\ CreatureDef(kind).evolves_into /= ""
    /\ CountIn(creatures, kind) > CreatureDef(kind).evolution_count

\* creature_evolution_system groups the creatures by id; a group evolves when it
\* holds at least evolution_count creatures and the kind has an evolved form.
EvolutionReady(kind) ==
    /\ CreatureDef(kind).evolves_into /= ""
    /\ CountIn(creatures, kind) >= CreatureDef(kind).evolution_count

\* Any evolution_count creatures of the kind, whatever their levels.
ConsumableAnyLevel(kind) ==
    { R \in SubBag(creatures) :
        /\ BagCardinality(R) = CreatureDef(kind).evolution_count
        /\ \A r \in BagToSet(R) : r.kind = kind }

\* The groups of evolution_count creatures of the kind that may be consumed: the
\* lowest levels go first.
Consumable(kind) ==
    { R \in SubBag(creatures) :
        /\ BagCardinality(R) = CreatureDef(kind).evolution_count
        /\ \A r \in BagToSet(R) : r.kind = kind
        /\ \A r \in BagToSet(R), e \in BagToSet(creatures (-) R) :
             e.kind = kind => r.level <= e.level }

EvolutionPolicies == { "merge", "keep" }

\* The evolution as an automatic merge, whatever the player chose.
EvolveAttemptAuto(kind, policy) ==
    /\ UNCHANGED respawnQueue
    /\ lastRespawned' = EmptyBag
    /\ IF ~EvolutionReady(kind)
         THEN /\ lastEvo' = [ kind |-> kind, policy |-> policy, result |-> "noop" ]
              /\ UNCHANGED creatures
         ELSE /\ lastEvo' = [ kind |-> kind, policy |-> policy, result |-> "merged" ]
              /\ \E R \in Consumable(kind) :
                   creatures' = (creatures (-) R)
                                  (+) One(Fresh(CreatureDef(kind).evolves_into))

\* One evolution attempt on a kind, with the player's choice (combine or keep the
\* leveled creatures).
EvolveAttempt(kind, policy) ==
    /\ UNCHANGED respawnQueue
    /\ lastRespawned' = EmptyBag
    /\ IF ~EvolutionReady(kind)
         THEN /\ lastEvo' = [ kind |-> kind, policy |-> policy, result |-> "noop" ]
              /\ UNCHANGED creatures
         ELSE IF policy = "keep"
           THEN /\ lastEvo' = [ kind |-> kind, policy |-> policy, result |-> "kept" ]
                /\ UNCHANGED creatures
           ELSE /\ lastEvo' = [ kind |-> kind, policy |-> policy, result |-> "merged" ]
                /\ \E R \in Consumable(kind) :
                     creatures' = (creatures (-) R)
                                    (+) One(Fresh(CreatureDef(kind).evolves_into))

(***************************************************************************)
(* Director (resources/director.rs)                                        *)
(***************************************************************************)

\* Minimum 15 enemies per second always.
MIN_SPAWN_RATE == 15

\* Ceiling of the spawn rate: the enemy cap.
MAX_ENEMIES == 2000

\* Stress bands, in percent of the 0..1 stress scale.
STOMPING_BELOW == 30
STRUGGLING_ABOVE == 70

\* Average creature HP (percent) at or below which the band is critical.
CRITICAL_HP_PCT == 10

\* Weights of the DPS term and of the health term of the stress level (percent).
STRESS_DPS_WEIGHT == 50
STRESS_HP_WEIGHT == 50

\* Expected player DPS at wave 1; the expected-DPS curve is linear in the wave.
EXPECTED_DPS_PER_WAVE == 15

\* Performance safeguards: FPS limits and the seconds of low FPS before throttling.
LOW_FPS == 30
VERY_LOW_FPS == 20
RESTORE_FPS == 45
LOW_FPS_SECONDS == 3

\* Telemetry offered to a tick.
DamageSamples == { 0, 8, 32 }
HealthSamples == { 5, 40, 100 }
FpsSamples == { 15, 25, 40, 60 }
Waves == { 1, 2 }
BaseRates == { 4, 1500 }

ExpectedDps(wave) == EXPECTED_DPS_PER_WAVE * wave

\* dps_estimate: the window's damage per second, exponentially smoothed.
SmoothedDps(old, sample) == (old + sample) \div 2

\* stress_level in percent: the DPS shortfall against the expected curve (0 at twice
\* the expected DPS or more, 100 at no DPS) weighted with the missing health.
StressLevel(dps, wave, hp) ==
    LET ratio == Min(200, (dps * 100) \div ExpectedDps(wave))
        shortfall == (200 - ratio) \div 2
    IN  (STRESS_DPS_WEIGHT * shortfall + STRESS_HP_WEIGHT * (100 - hp)) \div 100

StressBand(stress, hp) ==
    IF hp <= CRITICAL_HP_PCT THEN "critical"
    ELSE IF stress < STOMPING_BELOW THEN "stomping"
    ELSE IF stress > STRUGGLING_ABOVE THEN "struggling"
    ELSE "comfortable"

\* The modifiers with stomping and struggling exchanged.
SpawnRateModifierInverted(band) ==
    CASE band = "stomping"    -> 60
      [] band = "comfortable" -> 100
      [] band = "struggling"  -> 200
      [] OTHER                -> 200

\* Stress-based adaptive spawning: the spawn-rate modifier of each band, in percent.
SpawnRateModifier(band) ==
    CASE band = "stomping"    -> 200
      [] band = "comfortable" -> 100
      [] band = "struggling"  -> 60
      [] OTHER                -> 60

\* Performance safeguards: the throttle (percent of the spawn rate that is kept).
NextLowFpsDuration(dur, fps) == IF fps < LOW_FPS THEN Min(dur + 1, LOW_FPS_SECONDS) ELSE 0

\* The 25% reduction taken as soon as the FPS is low, without the 3 seconds.
NextThrottleNoDebounce(throttle, dur, fps) ==
    IF fps < VERY_LOW_FPS THEN 50
    ELSE IF fps < LOW_FPS THEN 75
    ELSE IF fps > RESTORE_FPS THEN 100
    ELSE throttle

\* The normal rate restored as soon as the FPS is no longer low.
NextThrottleRestoreEarly(throttle, dur, fps) ==
    IF fps < VERY_LOW_FPS THEN 50
    ELSE IF fps < LOW_FPS /\ dur >= LOW_FPS_SECONDS THEN 75
    ELSE IF fps >= LOW_FPS THEN 100
    ELSE throttle

\* FPS < 30 for 3+ seconds: 75%; FPS < 20: 50%; FPS > 45: back to 100%; otherwise
\* the throttle stays.  dur is the low-FPS duration with this tick counted in.
NextThrottle(throttle, dur, fps) ==
    IF fps < VERY_LOW_FPS THEN 50
    ELSE IF fps < LOW_FPS /\ dur >= LOW_FPS_SECONDS THEN 75
    ELSE IF fps > RESTORE_FPS THEN 100
    ELSE throttle

\* "Minimum 15 enemies per second always".
SpawnRateFloor(rate) == Max(MIN_SPAWN_RATE, rate)

\* The ceiling of the rate: the live population cap.
SpawnRateCeiling(rate) == Min(MAX_ENEMIES, rate)

\* The throttle applied after the floor and the ceiling.
EffectiveSpawnRateThrottledLast(base, modifier, throttle) ==
    (SpawnRateFloor(SpawnRateCeiling((base * modifier) \div 100)) * throttle) \div 100

\* The spawn rate of the plan: the wave's base rate scaled by the stress modifier
\* and the throttle, then held between the floor and the ceiling.
EffectiveSpawnRate(base, modifier, throttle) ==
    SpawnRateFloor(SpawnRateCeiling((base * modifier * throttle) \div 10000))

\* Elite share of the spawns by wave, in percent.
ElitePct(wave) ==
    IF wave <= 5 THEN 2 ELSE IF wave <= 10 THEN 5 ELSE IF wave <= 15 THEN 10
    ELSE IF wave <= 20 THEN 15 ELSE 20

\* director_update_system, one tick.  A tick without telemetry (no creatures yet)
\* holds the previous state.
NextDirector(d, damage, hp, fps, wave) ==
    LET dps    == SmoothedDps(d.dps_estimate, damage)
        stress == StressLevel(dps, wave, hp)
        dur    == NextLowFpsDuration(d.low_fps_duration, fps)
    IN  [ dps_estimate |-> dps,
          current_fps |-> fps,
          average_health |-> hp,
          wave |-> wave,
          stress_level |-> stress,
          spawn_rate_modifier |-> SpawnRateModifier(StressBand(stress, hp)),
          low_fps_duration |-> dur,
          performance_throttle |-> NextThrottle(d.performance_throttle, dur, fps) ]

SpawnPlan(d, base) ==
    [ spawn_rate |-> EffectiveSpawnRate(base, d.spawn_rate_modifier, d.performance_throttle),
      elite_pct |-> ElitePct(d.wave) ]

\* The Director before its first tick.
InitialDirector ==
    [ dps_estimate |-> 0, current_fps |-> 60, average_health |-> 100, wave |-> 1,
      stress_level |-> StressLevel(0, 1, 100), spawn_rate_modifier |-> 100,
      low_fps_duration |-> 0, performance_throttle |-> 100 ]

\* The state going back to the initial one on a tick without telemetry.
ResetDirector(d) == InitialDirector

\* The state after a tick without telemetry: the previous one is held.
HeldDirector(d) == d

DirectorTick(present, damage, hp, fps, wave, base) ==
    IF ~present
      THEN /\ director' = HeldDirector(director)
           /\ plan' = IF director' = director THEN plan ELSE SpawnPlan(director', base)
           /\ lastTick' = "missing"
      ELSE /\ director' = NextDirector(director, damage, hp, fps, wave)
           /\ plan' = SpawnPlan(director', base)
           /\ lastTick' = "telemetry"

(***************************************************************************)
(* Enemy spawning under the enemy cap (resources/director.rs, debug menu)  *)
(***************************************************************************)

DEFAULT_MAX_ENEMIES == 1500

\* Positions of the debug menu's enemy cap slider (100 to 5000 in steps of 100)
\* that are tried, the sizes of a spawn event, and the enemies that die or are
\* cleaned up at once.
SliderValues == { 100, 1500, MAX_ENEMIES }
SpawnBatches == { 25, 50, 400, 600 }
EnemyLosses == { 25, 400 }

NoSpawn == [ batch |-> 0, spawned |-> 0 ]

\* A spawn event that ignores the cap.
SpawnCountUncapped(batch, alive, cap) == batch

\* The enemies a spawn event adds: the cap prevents over-spawning, so the batch is
\* cut to the room the cap leaves.
SpawnCount(batch, alive, cap) == Min(batch, Max(0, cap - alive))

\* One spawn event of the Director's horde spawning.
SpawnEnemies(batch) ==
    /\ lastSpawn' = [ batch |-> batch,
                      spawned |-> SpawnCount(batch, enemies_alive, max_enemies) ]
    /\ enemies_alive' = enemies_alive + lastSpawn'.spawned
    /\ UNCHANGED max_enemies

\* Enemies are killed, or despawned by enemy_cleanup_system far from the player.
EnemiesLost(n) ==
    /\ n <= enemies_alive
    /\ enemies_alive' = enemies_alive - n
    /\ lastSpawn' = NoSpawn
    /\ UNCHANGED max_enemies

\* The enemy cap slider of the debug menu is moved.
SetMaxEnemies(cap) ==
    /\ max_enemies' = cap
    /\ lastSpawn' = NoSpawn
    /\ UNCHANGED enemies_alive

(***************************************************************************)
(* Balance visualizer (benchmarking/src/App.jsx)                           *)
(***************************************************************************)

WAVES == 30
KILLS_PER_WAVE == 50
MAX_PLAYER_LEVEL == 100
DEFAULT_EXPONENT == 112

\* The positions of the exponent slider: 1.08 to 1.20 in steps of 0.01.
ExponentValues == 108..120

\* 25 * 1.2^n.
RECURSIVE KillsGrowth(_)
KillsGrowth(n) == IF n = 0 THEN DecFromNat(25) ELSE DecScale(KillsGrowth(n - 1), 12, 1)

\* The requirement taken one level too high: 25 * 1.2^level.
KillsForNextLevelOneLevelUp(level) == KillsGrowth(level)

\* killsForNextLevel = 25 * Math.pow(1.2, playerLevel - 1)
KillsForNextLevel(level) == KillsGrowth(level - 1)

\* The while loop's condition.
WhileCondition(cumulative, totalKills, level) ==
    DecLess(cumulative, DecFromNat(totalKills)) /\ level < MAX_PLAYER_LEVEL

\* Math.round(num / den * 100), the ratio rounded to hundredths and counted in
\* hundredths: the largest r with (2r - 1) * den <= 200 * num.
RECURSIVE RoundBisect(_, _, _, _)
RoundBisect(num200, den, lo, hi) ==
    IF hi - lo <= 1 THEN lo
    ELSE LET mid == (lo + hi) \div 2
         IN  IF BigLess(num200, BigMulNat(den, 2 * mid - 1))
               THEN RoundBisect(num200, den, lo, mid)
               ELSE RoundBisect(num200, den, mid, hi)

RoundedX100(num, den) == RoundBisect(BigMulNat(num, 200), den, 0, 16384)

\* The player power model of one wave.
NumCreatures(level) == Max(1, (level * 6) \div 10)
AvgCreatureLevel(w, level) == 1 + (w * KILLS_PER_WAVE) \div (NumCreatures(level) * 50)
EvolutionMult(level) == IF level >= 15 THEN 2 ELSE 1
\* playerDPS in hundredths: numCreatures * 15 * (1 + 0.1 * avgCreatureLevel) * 1.1
\* * evolutionMult.
PlayerDPSX100(w, level) ==
    NumCreatures(level) * 15 * (10 + AvgCreatureLevel(w, level)) * 11 * EvolutionMult(level)
\* spawnRate in tenths: Math.min(4, 0.8 + wave * 0.1).
SpawnRateX10(w) == Min(40, 8 + w)

\* pressure = spawnRate / killRate with killRate = playerDPS / enemyHP and
\* enemyHP = 30 * exponent^wave, as the fraction num / den.
Pressure(exponent, w, level) ==
    [ num |-> BigMulNat(BigPowNat(exponent, w), 30 * SpawnRateX10(w) * 10),
      den |-> BigShift10(BigFromNat(PlayerDPSX100(w, level)), 2 * w) ]

\* The row pushed for a wave (of the rounded display values only spawnRate and
\* pressure are kept; pressure is in hundredths).
GameDataRow(exponent, w, level) ==
    LET p == Pressure(exponent, w, level)
    IN  [ wave |-> w, playerLevel |-> level, numCreatures |-> NumCreatures(level),
          avgCreatureLevel |-> AvgCreatureLevel(w, level),
          spawnRate |-> SpawnRateX10(w) * 10,
          pressure |-> RoundedX100(p.num, p.den),
          evolutionMult |-> EvolutionMult(level) ]

\* The last row with pressure > 1 instead of the first.
OverwhelmWaveLast(d) ==
    LET over == { i \in 1..Len(d) : d[i].pressure > 100 }
    IN  IF over = {} THEN 0
        ELSE d[CHOOSE i \in over : \A j \in over : j <= i].wave

\* data.find(d => d.pressure > 1)?.wave
OverwhelmWave(d) ==
    LET over == { i \in 1..Len(d) : d[i].pressure > 100 }
    IN  IF over = {} THEN 0
        ELSE d[CHOOSE i \in over : \A j \in over : i <= j].wave

\* for (let wave = 1; wave <= 30; wave++): a wave's body begins.
ForWave ==
    /\ pc = "for" /\ currentWave <= WAVES
    /\ cumulativeKillsNeeded' = DecFromNat(0)
    /\ playerLevel' = 1
    /\ pc' = "while"
    /\ UNCHANGED << enemyHpExponent, currentWave, data, overwhelmWave >>

\* One iteration of the while loop.
WhileIteration ==
    /\ pc = "while"
    /\ WhileCondition(cumulativeKillsNeeded, currentWave * KILLS_PER_WAVE, playerLevel)
    /\ cumulativeKillsNeeded' = DecAdd(cumulativeKillsNeeded, KillsForNextLevel(playerLevel))
    /\ playerLevel' = IF DecLess(DecFromNat(currentWave * KILLS_PER_WAVE), cumulativeKillsNeeded')
                        THEN playerLevel ELSE playerLevel + 1
    /\ UNCHANGED << enemyHpExponent, pc, currentWave, data, overwhelmWave >>

\* The while loop is left: the rest of the wave's body and data.push.
PushRow ==
    /\ pc = "while"
    /\ ~WhileCondition(cumulativeKillsNeeded, currentWave * KILLS_PER_WAVE, playerLevel)
    /\ data' = Append(data, GameDataRow(enemyHpExponent, currentWave, playerLevel))
    /\ currentWave' = currentWave + 1
    /\ pc' = "for"
    /\ UNCHANGED << enemyHpExponent, cumulativeKillsNeeded, playerLevel, overwhelmWave >>

\* calculateGameData returns and App computes its warning.
Render ==
    /\ pc = "for" /\ currentWave > WAVES
    /\ overwhelmWave' = OverwhelmWave(data)
    /\ pc' = "idle"
    /\ UNCHANGED << enemyHpExponent, currentWave, cumulativeKillsNeeded, playerLevel, data >>

\* The slider is moved: useMemo runs calculateGameData again.
SetEnemyHpExponent(exponent) ==
    /\ pc = "idle" /\ exponent /= enemyHpExponent
    /\ enemyHpExponent' = exponent
    /\ currentWave' = 1 /\ data' = << >> /\ pc' = "for"
    /\ UNCHANGED << cumulativeKillsNeeded, playerLevel, overwhelmWave >>

(***************************************************************************)
(* One frame: the systems in their execution order (main.rs)               *)
(***************************************************************************)

\* The order with the Director after the leveling systems.
SystemOrderDirectorLast ==
    << "Tilemap", "Input", "Movement", "Combat", "Death", "Leveling", "Director", "UI" >>

\* System execution order: Director, Tilemap, Input, Movement, Combat, Death,
\* Leveling, UI.
SystemOrder ==
    << "Director", "Tilemap", "Input", "Movement", "Combat", "Death", "Leveling", "UI" >>

\* The systems that touch none of the state modelled here.
ExternalSystems == { "Tilemap", "Input", "Movement", "UI" }

CurrentSystem == SystemOrder[phase]

\* The running system completes: the next one is up, and after the last one a new
\* frame starts.
SystemDone ==
    IF phase = Len(SystemOrder)
      THEN phase' = 1 /\ ran' = {}
      ELSE phase' = phase + 1 /\ ran' = ran \cup { CurrentSystem }

\* Telemetry, card and creature offered to the systems of a frame.
FrameDamage == { 0 }
FrameArtifacts == { "chaos_ember" }
FrameWeapons == { "inferno_blade" }
FrameKinds == { "fire_imp" }

\* director_update_system.
FrameDirector ==
    /\ CurrentSystem = "Director"
    /\ \E damage \in FrameDamage :
         DirectorTick(BagToSet(creatures) /= {}, damage, 100, 60, 1, MIN_SPAWN_RATE)
    /\ SystemDone
    /\ UNCHANGED << appVars, spawnerVars, deckVars, combatVars, progVars >>

FrameExternal ==
    /\ CurrentSystem \in ExternalSystems
    /\ SystemDone
    /\ UNCHANGED << appVars, spawnerVars, deckVars, combatVars, progVars, directorVars >>

\* creature_attack_system: the alive creatures attack, one attack at a time.
FrameAttack ==
    /\ CurrentSystem = "Combat"
    /\ \E e \in BagToSet(creatures) : Attack(e.kind, e.level)
    /\ UNCHANGED << appVars, spawnerVars, deckVars, progVars, directorVars, tickVars >>

FrameCombatDone ==
    /\ CurrentSystem = "Combat"
    /\ SystemDone
    /\ UNCHANGED << appVars, spawnerVars, deckVars, combatVars, progVars, directorVars >>

\* creature_death_system.
FrameDeath ==
    /\ CurrentSystem = "Death"
    /\ \E e \in BagToSet(creatures) : CreatureDeath(e)
    /\ UNCHANGED << appVars, spawnerVars, deckVars, combatVars, directorVars, tickVars >>

FrameDeathDone ==
    /\ CurrentSystem = "Death"
    /\ SystemDone
    /\ UNCHANGED << appVars, spawnerVars, deckVars, combatVars, progVars, directorVars >>

\* level_check_system: a rolled card is applied (a creature is spawned, a weapon
\* adds its affinity, an artifact is applied).
FrameLevelingCreature ==
    /\ CurrentSystem = "Leveling"
    /\ \E k \in FrameKinds : SpawnCreature(k)
    /\ SystemDone
    /\ UNCHANGED << appVars, spawnerVars, deckVars, combatVars, directorVars >>

FrameLevelingWeapon ==
    /\ CurrentSystem = "Leveling"
    /\ \E w \in FrameWeapons : EquipWeapon(w)
    /\ SystemDone
    /\ UNCHANGED << appVars, spawnerVars, deckVars, progVars, directorVars >>

FrameLevelingArtifact ==
    /\ CurrentSystem = "Leveling"
    /\ \E a \in FrameArtifacts : AcquireArtifact(a)
    /\ SystemDone
    /\ UNCHANGED << appVars, spawnerVars, deckVars, progVars, directorVars >>

FrameLevelingDone ==
    /\ CurrentSystem = "Leveling"
    /\ SystemDone
    /\ UNCHANGED << appVars, spawnerVars, deckVars, combatVars, progVars, directorVars >>

FrameNext ==
    \/ FrameDirector \/ FrameExternal \/ FrameAttack \/ FrameCombatDone
    \/ FrameDeath \/ FrameDeathDone
    \/ FrameLevelingCreature \/ FrameLevelingWeapon \/ FrameLevelingArtifact
    \/ FrameLevelingDone

(***************************************************************************)
(* Initial states and specifications                                       *)
(***************************************************************************)

DeckInit ==
    /\ cards = << >> /\ total_weight = 0
    /\ lastRoll = NoRoll /\ lastRegister = NoRegister
    /\ rollsSinceCreature = 0

CombatInit ==
    /\ affinity = [ c \in Colors |-> 0 ]
    /\ ledger = << >>
    /\ lastAttack = NoAttack

ProgInit ==
    /\ lastRespawned = EmptyBag
    /\ creatures = EmptyBag /\ respawnQueue = EmptyBag /\ lastEvo = NoEvo

DirectorInit ==
    /\ director = InitialDirector
    /\ lastTick = "none"
    /\ plan = [ spawn_rate |-> MIN_SPAWN_RATE, elite_pct |-> ElitePct(1) ]

TickInit == phase = 1 /\ ran = {}

\* useState(1.12) and the first run of calculateGameData.
AppInit ==
    /\ enemyHpExponent = DEFAULT_EXPONENT
    /\ pc = "for" /\ currentWave = 1 /\ data = << >>
    /\ cumulativeKillsNeeded = DecFromNat(0) /\ playerLevel = 1
    /\ overwhelmWave = 0

SpawnerInit == enemies_alive = 0 /\ max_enemies = DEFAULT_MAX_ENEMIES /\ lastSpawn = NoSpawn

Init == DeckInit /\ CombatInit /\ ProgInit /\ DirectorInit /\ TickInit /\ SpawnerInit /\ AppInit

OtherThanDeck == UNCHANGED << appVars, spawnerVars, combatVars, progVars, directorVars, tickVars >>
OtherThanCombat == UNCHANGED << appVars, spawnerVars, deckVars, progVars, directorVars, tickVars >>
OtherThanProg == UNCHANGED << appVars, spawnerVars, deckVars, combatVars, directorVars, tickVars >>
OtherThanSpawner == UNCHANGED << appVars, deckVars, combatVars, progVars, directorVars, tickVars >>
OtherThanApp ==
    UNCHANGED << spawnerVars, deckVars, combatVars, progVars, directorVars, tickVars >>
OtherThanDirector == UNCHANGED << appVars, spawnerVars, deckVars, combatVars, progVars, tickVars >>

RegisterStep == (\E id \in CardIds, w \in RegisterWeights : Register(id, w)) /\ OtherThanDeck
AdjustWeightStep ==
    (\E i \in 1..MaxCards, d \in AdjustDeltas : AdjustWeight(i, d)) /\ OtherThanDeck
RollStep == Roll /\ OtherThanDeck

AffinityAddStep ==
    (\E c \in Colors, a \in AffinityAmounts : AffinityAdd(c, a)) /\ OtherThanCombat
AffinityRemoveStep ==
    (\E c \in Colors, a \in AffinityAmounts : AffinityRemove(c, a)) /\ OtherThanCombat

ResolveAttackStep == ResolveAttack /\ OtherThanCombat

EquipWeaponStep == (\E w \in Weapons : EquipWeapon(w)) /\ OtherThanCombat
AcquireArtifactStep == (\E a \in Artifacts : AcquireArtifact(a)) /\ OtherThanCombat
ApplyArtifactStep == (\E a \in LedgerArtifacts : AcquireArtifact(a)) /\ OtherThanCombat
AttackStep ==
    /\ \E k \in Kinds, l \in AttackLevels : Attack(k, l)
    /\ OtherThanCombat

SpawnCreatureStep == (\E k \in Kinds : SpawnCreature(k)) /\ OtherThanProg
KillCreditStep ==
    (\E e \in BagToSet(creatures), n \in KillBatches : KillCredit(e, n)) /\ OtherThanProg
LevelingSpawnStep ==
    /\ creatures = EmptyBag
    /\ (\E k \in Kinds : SpawnCreature(k))
    /\ OtherThanProg
LevelingCreditStep ==
    /\ \E e \in BagToSet(creatures), n \in LevelingBatches :
         e.kills + n <= MaxLevelingKills /\ CreatureXp(e, n)
    /\ OtherThanProg
CreatureDeathStep == (\E e \in BagToSet(creatures) : CreatureDeath(e)) /\ OtherThanProg
RespawnTickStep == RespawnTick /\ OtherThanProg
EvolveAttemptStep ==
    (\E k \in Kinds, p \in EvolutionPolicies : EvolveAttempt(k, p)) /\ OtherThanProg

DirectorTickStep ==
    /\ \E damage \in DamageSamples, hp \in HealthSamples, fps \in FpsSamples,
          wave \in Waves, base \in BaseRates :
         DirectorTick(TRUE, damage, hp, fps, wave, base)
    /\ OtherThanDirector
DirectorIdleTickStep ==
    /\ \E damage \in DamageSamples, fps \in FpsSamples :
         DirectorTick(FALSE, damage, 0, fps, director.wave, MAX_ENEMIES)
    /\ OtherThanDirector

DeckNext == RegisterStep \/ AdjustWeightStep \/ RollStep
AffinityNext == AffinityAddStep \/ AffinityRemoveStep
CritNext == ResolveAttackStep
LedgerNext == ApplyArtifactStep
CombatNext == EquipWeaponStep \/ AcquireArtifactStep \/ AttackStep
ProgNext ==
    \/ SpawnCreatureStep \/ KillCreditStep \/ CreatureDeathStep
    \/ RespawnTickStep \/ EvolveAttemptStep
SpawnEnemiesStep == (\E batch \in SpawnBatches : SpawnEnemies(batch)) /\ OtherThanSpawner
EnemiesLostStep == (\E n \in EnemyLosses : EnemiesLost(n)) /\ OtherThanSpawner
SetMaxEnemiesStep == (\E cap \in SliderValues : SetMaxEnemies(cap)) /\ OtherThanSpawner

SpawnerNext == SpawnEnemiesStep \/ EnemiesLostStep \/ SetMaxEnemiesStep
ForWaveStep == ForWave /\ OtherThanApp
WhileIterationStep == WhileIteration /\ OtherThanApp
PushRowStep == PushRow /\ OtherThanApp
RenderStep == Render /\ OtherThanApp
SetEnemyHpExponentStep ==
    (\E exponent \in ExponentValues : SetEnemyHpExponent(exponent)) /\ OtherThanApp

AppCompute == ForWaveStep \/ WhileIterationStep \/ PushRowStep \/ RenderStep
AppNext == AppCompute \/ SetEnemyHpExponentStep
LevelingNext == LevelingSpawnStep \/ LevelingCreditStep
DirectorNext == DirectorTickStep \/ DirectorIdleTickStep

Next ==
    \/ DeckNext \/ AffinityNext \/ CritNext \/ LedgerNext \/ CombatNext \/ ProgNext
    \/ DirectorNext \/ FrameNext \/ LevelingNext \/ SpawnerNext \/ AppNext

\* The resolver's inputs are drawn at the start.
CritInit ==
    /\ DeckInit /\ ProgInit /\ DirectorInit /\ TickInit /\ SpawnerInit /\ AppInit
    /\ affinity = [ c \in Colors |-> 0 ]
    /\ ledger = << >>
    /\ \E b \in CritBaseDamages, c1, c2, c3 \in CritChances :
         lastAttack = [ NoAttack EXCEPT !.attacker = "direct",
                                        !.crit_chance = << c1, c2, c3 >>,
                                        !.tier = "Pending",
                                        !.base_damage = DecFromNat(b) ]

Spec == Init /\ [][Next]_vars
SpecDeck == Init /\ [][DeckNext]_vars
SpecAffinity == Init /\ [][AffinityNext]_vars
SpecCrit == CritInit /\ [][CritNext]_vars
SpecLedger == Init /\ [][LedgerNext]_vars
SpecCombat == Init /\ [][CombatNext]_vars
SpecProg == Init /\ [][ProgNext]_vars
SpecDirector == Init /\ [][DirectorNext]_vars
SpecLeveling == Init /\ [][LevelingNext]_vars
SpecSpawner == Init /\ [][SpawnerNext]_vars
SpecApp == Init /\ [][AppNext]_vars
SpecFrame == Init /\ [][FrameNext]_vars

(***************************************************************************)
(* Properties                                                              *)
(***************************************************************************)

\* C1: for a deck with total_weight > 0 and a draw r in [0, total_weight), roll()
\* returns the first card in deck order whose cumulative weight is strictly
\* greater than r: card k owns [cumulative_before, cumulative_before + weight),
\* and a draw equal to the cumulative weight of card k selects card k + 1.
C1_RollHalfOpen ==
    lastRoll.err = "ok" =>
        /\ total_weight > 0
        /\ lastRoll.r >= 0 /\ lastRoll.r < total_weight
        /\ lastRoll.pick \in 1..Len(cards)
        /\ CumWeight(cards, lastRoll.pick - 1) <= lastRoll.r
        /\ lastRoll.r < CumWeight(cards, lastRoll.pick)
        /\ \A k \in 1..Len(cards) :
             /\ k < lastRoll.pick => CumWeight(cards, k) <= lastRoll.r
             /\ lastRoll.r = CumWeight(cards, k) => lastRoll.pick = k + 1

\* Weights 25 and 75, draw 25: the second card.
C1_Witness ==
    /\ Len(cards) = 2
    /\ cards[1].weight = 2500 /\ cards[2].weight = 7500
    /\ lastRoll = [ r |-> 2500, pick |-> 2, err |-> "ok" ]

\* C2: in every reachable state of the deck, after any sequence of registrations,
\* mid-run acquisitions and adjust_weight calls, total_weight equals the sum of
\* the weights of the cards in the deck.
C2_TotalWeightIsSum == total_weight = SumWeights(cards)

\* A deck of three cards, the first sculpted to the ceiling before the last was
\* acquired and sculpted.
C2_Witness ==
    /\ Len(cards) = 3
    /\ cards[1].adj = ADJUST_CEILING_PCT /\ cards[2].adj = 0 /\ cards[3].adj = 20
    /\ total_weight > 0

\* C3: an attack resolves to exactly one tier, the highest tier whose draw
\* succeeds: Super if u3 < c3, otherwise Mega if u2 < c2, otherwise Normal if
\* u1 < c1, otherwise None; with chances [100, 100, 100] the tier is Super for
\* every draw.
C3_HighestTierWins ==
    (lastAttack.attacker /= "none" /\ lastAttack.tier /= "Pending") =>
        LET c == lastAttack.crit_chance
            u == lastAttack.draws
            t == lastAttack.tier
        IN  /\ t \in { "Super", "Mega", "Normal", "None" }
            /\ t = "Super"  <=> u[3] < c[3]
            /\ t = "Mega"   <=> (u[3] >= c[3] /\ u[2] < c[2])
            /\ t = "Normal" <=> (u[3] >= c[3] /\ u[2] >= c[2] /\ u[1] < c[1])
            /\ t = "None"   <=> (u[3] >= c[3] /\ u[2] >= c[2] /\ u[1] >= c[1])
            /\ c = << 100, 100, 100 >> => t = "Super"

\* All three chances at 100 and the highest draws: Super.
C3_Witness ==
    /\ lastAttack.attacker = "direct"
    /\ lastAttack.crit_chance = << 100, 100, 100 >>
    /\ lastAttack.draws = << 99, 99, 99 >>
    /\ lastAttack.tier = "Super"

ModifierAt(dps) ==
    SpawnRateModifier(StressBand(StressLevel(dps, director.wave, director.average_health),
                                 director.average_health))

\* DPS estimates compared with the current one.
DpsEstimates == 0..(2 * ExpectedDps(2) + 4)

\* C5 as stated: a higher dps_estimate against the expected curve gives a lower or
\* equal modifier, a lower one a higher or equal modifier.
C5_AsStated ==
    \A d \in DpsEstimates :
        /\ d > director.dps_estimate => ModifierAt(d) <= ModifierAt(director.dps_estimate)
        /\ d < director.dps_estimate => ModifierAt(d) >= ModifierAt(director.dps_estimate)

\* C5: with the rest of the telemetry fixed, a higher dps_estimate against the
\* expected curve gives a higher or equal spawn-rate modifier (up to the 2x of a
\* stomping player), a lower one a lower or equal modifier (down to the 0.6x of a
\* struggling player); the modifier of the state is the one of its estimate.
C5_ModifierFollowsDps ==
    /\ director.spawn_rate_modifier = ModifierAt(director.dps_estimate)
    /\ \A d \in DpsEstimates :
        /\ d > director.dps_estimate => ModifierAt(d) >= ModifierAt(director.dps_estimate)
        /\ d < director.dps_estimate => ModifierAt(d) <= ModifierAt(director.dps_estimate)

\* A stomping player at 2x whose modifier would be lower with no DPS at all.
C5_Witness ==
    /\ director.dps_estimate > 0
    /\ director.spawn_rate_modifier = 200
    /\ ModifierAt(director.dps_estimate) = 200
    /\ ModifierAt(0) < 200

IsDeathStep == BagCardinality(respawnQueue') = BagCardinality(respawnQueue) + 1
IsRespawnTickStep ==
    /\ respawnQueue /= EmptyBag
    /\ respawnQueue' /= respawnQueue
    /\ ~IsDeathStep

\* C7: a defeated creature leaves the alive creatures and waits with a respawn
\* timer set by its evolution tier (a higher tier waits longer); it stays waiting
\* on every step until a tick finds its timer expired, and that tick creates a new
\* alive creature of its kind with level 1 and no kills, whatever the level and
\* kills at death.
C7_DefeatAndRespawn ==
    [][ /\ RespawnTime(1) < RespawnTime(2) /\ RespawnTime(2) < RespawnTime(3)
        /\ IsDeathStep =>
             \E e \in BagToSet(creatures) :
                /\ creatures' = creatures (-) One(e)
                /\ respawnQueue' = respawnQueue
                     (+) One([ kind |-> e.kind,
                               remaining |-> RespawnTime(CreatureDef(e.kind).tier) ])
        /\ IsRespawnTickStep =>
             /\ Population' = Population
             /\ creatures' = creatures (+) lastRespawned'
             /\ \A c \in BagToSet(lastRespawned') : c.level = 1 /\ c.kills = 0
             /\ \A k \in Kinds :
                  CountIn(lastRespawned', k)
                    = BagCountOver(respawnQueue,
                                   { q \in BagToSet(respawnQueue) :
                                       q.kind = k /\ q.remaining <= RespawnTickSeconds })
             /\ \A q \in BagToSet(respawnQueue) :
                  q.remaining > RespawnTickSeconds =>
                    CopiesIn([ q EXCEPT !.remaining = @ - RespawnTickSeconds ], respawnQueue')
                      = CopiesIn(q, respawnQueue)
        /\ ~IsRespawnTickStep =>
             \A q \in BagToSet(respawnQueue) :
                CopiesIn(q, respawnQueue') >= CopiesIn(q, respawnQueue)
      ]_vars

\* A tick respawned a flame fiend while an inferno demon defeated before that
\* tick is still waiting.
C7_Witness ==
    /\ CopiesIn(Fresh("flame_fiend"), lastRespawned) = 1
    /\ \E q \in BagToSet(respawnQueue) :
          q.kind = "inferno_demon" /\ q.remaining < RespawnTime(3) /\ q.remaining > 0

\* The threshold a value falls under: the last one whose min it has reached.
HighestThreshold(color, value) ==
    LET ts == Thresholds(color)
        i  == CHOOSE j \in 1..Len(ts) :
                 /\ ts[j].min <= value
                 /\ \A m \in 1..Len(ts) : ts[m].min <= value => m <= j
    IN  ts[i]

SameBundle(b, t) ==
    /\ b.attack_speed_bonus = t.attack_speed_bonus
    /\ b.hp_bonus = t.hp_bonus
    /\ b.crit_t1_bonus = t.crit_t1_bonus
    /\ b.crit_t2_unlock = t.crit_t2_unlock
    /\ b.crit_t3_unlock = t.crit_t3_unlock

\* C9 as stated: for every color and accumulated value, bonus_for returns the
\* bundle of the highest threshold whose min is at most the value.
C9_AsStated ==
    \A c \in Colors :
        LET b == BonusFor(c, affinity[c])
            t == HighestThreshold(c, affinity[c])
        IN  SameBundle(b, t) /\ b.damage_x10 = 10 * t.damage_bonus

\* C9: for every color and accumulated value v, bonus_for returns the bundle of the
\* highest threshold whose min is at most v (a value equal to a threshold's min
\* gets that threshold, one below it gets the previous one), the damage bonus being
\* raised by overflow_bonus_per_point for every point of v above 100.
C9_ThresholdPlusOverflow ==
    \A c \in Colors :
        LET v == affinity[c]
            b == BonusFor(c, v)
            t == HighestThreshold(c, v)
            ts == Thresholds(c)
        IN  /\ SameBundle(b, t)
            /\ b.damage_x10 = 10 * t.damage_bonus
                               + OverflowPerPointX10(c) * Max(0, v - OVERFLOW_START)
            /\ \A i \in 2..Len(ts) :
                 /\ v = ts[i].min => t = ts[i]
                 /\ v = ts[i].min - 1 => t = ts[i - 1]

\* Red exactly at the threshold that unlocks tier 2, blue one below it.
C9_Witness ==
    /\ affinity["red"] = 51 /\ affinity["blue"] = 50
    /\ BonusFor("red", affinity["red"]).crit_t2_unlock
    /\ ~BonusFor("blue", affinity["blue"]).crit_t2_unlock

\* Overflow: red above 100.
C9_OverflowWitness == affinity["red"] > OVERFLOW_START

\* C10: while the affinity of an attacker's color has not unlocked tier 2 (tier 3),
\* the attacker's effective tier-2 (tier-3) crit chance is 0 whatever the base and
\* the artifacts contribute, and its attacks never resolve to Mega (Super).
C10_LockedTiersNeverCrit ==
    lastAttack.attacker \in Kinds =>
        LET color == CreatureDef(lastAttack.attacker).color
            aff   == BonusFor(color, affinity[color])
        IN  /\ ~aff.crit_t2_unlock =>
                 lastAttack.crit_chance[2] = 0 /\ lastAttack.tier /= "Mega"
            /\ ~aff.crit_t3_unlock =>
                 lastAttack.crit_chance[3] = 0 /\ lastAttack.tier /= "Super"

\* An inferno demon (base tier-2 and tier-3 chances above 0) with chaos_ember and
\* pyromaniac acquired attacks below the unlocking affinity; its tier-2 and tier-3
\* rolls are the lowest there are.
C10_Witness ==
    /\ lastAttack.attacker = "inferno_demon"
    /\ ledger = << "chaos_ember", "pyromaniac" >>
    /\ affinity["red"] = 50
    /\ lastAttack.draws = << 99, 0, 0 >>
    /\ lastAttack.crit_chance[2] = 0 /\ lastAttack.crit_chance[3] = 0
    /\ lastAttack.tier = "None"

\* The creatures get_total_bonuses is asked about: every color, type and id.
QueryColors == { "red", "blue" }
QueryTypes == { "ranged", "melee", "assassin" }
QueryIds == { "fire_imp", "ember_hound", "inferno_knight" }

\* How many times an artifact was acquired.
Occurrences(a) == Cardinality({ i \in 1..Len(ledger) : ledger[i] = a })

RECURSIVE SumOverSet(_, _)
SumOverSet(S, f) ==
    IF S = {} THEN 0
    ELSE LET x == CHOOSE y \in S : TRUE IN f[x] + SumOverSet(S \ { x }, f)

\* The sum, stat by stat, of the modifiers of the acquired artifacts in a set.
BundleSum(S) ==
    [ stat \in DOMAIN StatBonuses(0, 0, 0, 0, 0, 0) |->
        SumOverSet(S, [ a \in S |-> Occurrences(a) * ArtifactDef(a).bonus[stat] ]) ]

\* C11 as stated: the total for a creature is the sum of the sources whose scope is
\* global, or its color, or its kind, and of no other source.
C11_AsStated ==
    \A c \in QueryColors, t \in QueryTypes, k \in QueryIds :
        TotalFor(ledger, c, t, k)
          = BundleSum({ a \in LedgerArtifacts :
                          \/ ArtifactDef(a).scope = "global"
                          \/ ArtifactDef(a).scope = "color" /\ ArtifactDef(a).target = c
                          \/ ArtifactDef(a).scope = "creature" /\ ArtifactDef(a).target = k })

\* C11: after any sequence of acquisitions, the total for a creature of a color,
\* type and id equals, stat by stat, the sum of the modifiers of every artifact
\* ever acquired whose scope is global, or is that color, or is that creature
\* type, or is that creature id; artifacts of another color, type or creature
\* contribute nothing, and no acquired artifact is ever dropped from the ledger.
C11_TotalForSumsApplicable ==
    /\ [](\A c \in QueryColors, t \in QueryTypes, k \in QueryIds :
            TotalFor(ledger, c, t, k)
              = BundleSum({ a \in LedgerArtifacts :
                    \/ ArtifactDef(a).scope = "global"
                    \/ ArtifactDef(a).scope = "color" /\ ArtifactDef(a).target = c
                    \/ ArtifactDef(a).scope = "type" /\ ArtifactDef(a).target = t
                    \/ ArtifactDef(a).scope = "creature" /\ ArtifactDef(a).target = k }))
    /\ [][ /\ Len(ledger') >= Len(ledger)
           /\ SubSeq(ledger', 1, Len(ledger)) = ledger ]_vars

\* Ember Soul (ranged creatures) and Hound Collar (the Ember Hound) are acquired: a
\* Fire Imp gets the first only, an Ember Hound the second only.
C11_Witness ==
    /\ ledger = << "ember_soul", "hound_collar" >>
    /\ TotalFor(ledger, "red", "ranged", "fire_imp").damage_bonus = 25
    /\ TotalFor(ledger, "red", "assassin", "ember_hound").damage_bonus = 100
    /\ TotalFor(ledger, "blue", "melee", "inferno_knight").damage_bonus = 0

\* 1e15 written out in limbs.
OneE15 == [ n |-> << 0, 0, 0, 1000 >>, k |-> 0 ]

\* C12: whenever an attack resolves to Super, final_damage is the smaller of
\* base_damage^4 and MAX_DAMAGE_CAP = 1e15, so a Super result never exceeds the cap.
C12_SuperIsCapped ==
    lastAttack.tier = "Super" =>
        LET b      == lastAttack.base_damage
            fourth == DecMul(DecMul(DecMul(b, b), b), b)
        IN  /\ DecEq(MAX_DAMAGE_CAP, OneE15)
            /\ ~DecLess(OneE15, lastAttack.final_damage)
            /\ IF DecLess(OneE15, fourth)
                  THEN DecEq(lastAttack.final_damage, OneE15)
                  ELSE DecEq(lastAttack.final_damage, fourth)

\* A Super crit on a base damage of 6000: 6000^4 is above the cap, the damage is 1e15.
C12_Witness ==
    /\ lastAttack.tier = "Super"
    /\ DecEq(lastAttack.base_damage, DecFromNat(6000))
    /\ DecEq(lastAttack.final_damage, OneE15)

C15_InvalidWeightRejected ==
    /\ [](\A i \in 1..Len(cards) : cards[i].weight > 0)
    /\ [][ lastRegister'.err /= "none" =>
             /\ lastRegister'.weight <= 0 <=> lastRegister'.err = "InvalidWeightError"
             /\ lastRegister'.err = "InvalidWeightError" =>
                   /\ cards' = cards
                   /\ total_weight' = total_weight
                   /\ lastRoll'.pick = 0
             /\ lastRegister'.err = "ok" =>
                   \/ /\ Len(cards') = Len(cards) + 1
                      /\ cards'[Len(cards')].id = lastRegister'.id
                   \/ UNCHANGED vars
         ]_vars

\* A card of weight 0 was refused by a deck that holds one card.
C15_Witness ==
    /\ lastRegister.err = "InvalidWeightError" /\ lastRegister.weight = 0
    /\ Len(cards) = 1 /\ lastRegister.id \notin DeckIds(cards)
    /\ total_weight = cards[1].weight

\* The artifacts that apply to a creature.
Applicable(c, t, k) ==
    { a \in LedgerArtifacts :
        \/ ArtifactDef(a).scope = "global"
        \/ ArtifactDef(a).scope = "color" /\ ArtifactDef(a).target = c
        \/ ArtifactDef(a).scope = "type" /\ ArtifactDef(a).target = t
        \/ ArtifactDef(a).scope = "creature" /\ ArtifactDef(a).target = k }

\* The sum of the acquired artifacts' modifiers with every negative modifier
\* replaced by 0.
NonNegativeBundleSum(S) ==
    [ stat \in DOMAIN StatBonuses(0, 0, 0, 0, 0, 0) |->
        SumOverSet(S, [ a \in S |-> Occurrences(a) * Max(0, ArtifactDef(a).bonus[stat]) ]) ]

\* The effective stats of a kind at a level are those composed from a bundle b of
\* artifact modifiers.
ComposedFrom(kind, level, b) ==
    LET d   == CreatureDef(kind)
        aff == BonusFor(d.color, affinity[d.color])
        e   == Effective(kind, level)
    IN  /\ DecEq(e.hp, DecFromScaled(d.base_hp * (100 + aff.hp_bonus) * (100 + b.hp_bonus), 4))
        /\ DecEq(e.attack_speed,
                 DecFromScaled(d.attack_speed * (100 + aff.attack_speed_bonus)
                                 * (100 + b.attack_speed_bonus), 4))
        /\ DecEq(e.damage,
                 DecMul(DecFromScaled(d.base_damage * (1000 + aff.damage_x10), 3),
                        DecFromScaled((100 + b.damage_bonus) * (10 + level), 3)))

\* C16 as stated: the effective stats are those composed with every negative
\* modifier of a bonus source replaced by 0, and no effective crit chance is
\* below 0.
C16_AsStated ==
    \A kind \in Kinds, level \in AttackLevels :
        LET d == CreatureDef(kind)
        IN  /\ ComposedFrom(kind, level,
                            NonNegativeBundleSum(Applicable(d.color, d.creature_type, kind)))
            /\ \A i \in 1..3 : Effective(kind, level).crit_chance[i] >= 0

\* C16: a negative modifier of a bonus source is applied as it is authored: the
\* effective stats are those composed from the plain sum of the modifiers of the
\* applicable artifacts (Burning Blood's hp_bonus of -10 lowers the effective HP
\* to 0.9 of what it would be); no error is reported, and with the authored
\* artifacts every effective crit chance is at least 0.
C16_NegativeModifiersApply ==
    \A kind \in Kinds, level \in AttackLevels :
        LET d == CreatureDef(kind)
        IN  /\ ComposedFrom(kind, level, BundleSum(Applicable(d.color, d.creature_type, kind)))
            /\ \A i \in 1..3 : Effective(kind, level).crit_chance[i] >= 0

\* Burning Blood is acquired: a Fire Imp has 45 HP instead of 50.
C16_Witness ==
    /\ ledger = << "burning_blood" >>
    /\ DecEq(Effective("fire_imp", 1).hp, DecFromNat(45))

\* C17: a Director tick whose telemetry is missing (no combatants yet) leaves every
\* field of the Director state as it was before the tick: the state is not reset,
\* and the spawn rate of the plan does not rise.
C17_MissingTelemetryHolds ==
    [][ lastTick' = "missing" =>
          /\ director' = director
          /\ plan'.spawn_rate <= plan.spawn_rate
          /\ plan' = plan
      ]_vars

\* A tick without telemetry came while the Director was throttled to 50% with a
\* struggling player: the state is still that one, not the initial one.
C17_Witness ==
    /\ lastTick = "missing"
    /\ director.performance_throttle = 50
    /\ director.spawn_rate_modifier = 60
    /\ director /= InitialDirector

\* C18: once PITY_ROLLS consecutive rolls have returned no creature card, the next
\* roll on a deck that holds a creature card returns a creature card for every
\* draw, and no card weight changes.
C18_PityGuarantee ==
    [][ ( /\ rollsSinceCreature >= PITY_ROLLS
          /\ \E i \in 1..Len(cards) : cards[i].card_type = "Creature"
          /\ lastRoll'.err = "ok" /\ lastRegister' = NoRegister ) =>
          /\ cards' = cards
          /\ cards[lastRoll'.pick].card_type = "Creature"
      ]_vars

\* C19 as stated: the throttle lowers the spawn multiplier only once the overrun
\* has lasted through the debounce window, and an overrun that clears before the
\* window has elapsed never changes the multiplier.
C19_AsStated ==
    [][ lastTick' = "telemetry" =>
          /\ director'.performance_throttle < director.performance_throttle =>
                director'.low_fps_duration >= LOW_FPS_SECONDS
          /\ ( /\ director'.current_fps < LOW_FPS
               /\ director'.low_fps_duration < LOW_FPS_SECONDS ) =>
                director'.performance_throttle = director.performance_throttle
      ]_vars

\* C19: the 25% reduction of the spawn multiplier is applied only once the FPS has
\* been below 30 on LOW_FPS_SECONDS consecutive ticks of one second, an FPS of 20
\* to 29 that recovers before that never changes the multiplier, and the window
\* is a counter of ticks that a tick at 30 FPS or more sets back to 0; an FPS
\* below 20 cuts the multiplier to 50% at once, without the window.
C19_DebouncedThrottle ==
    [][ lastTick' = "telemetry" =>
          LET fps == director'.current_fps
              dur == director'.low_fps_duration
              old == director.performance_throttle
              new == director'.performance_throttle
          IN  /\ dur = IF fps < LOW_FPS
                         THEN Min(director.low_fps_duration + 1, LOW_FPS_SECONDS) ELSE 0
              /\ fps < VERY_LOW_FPS => new = 50
              /\ (fps >= VERY_LOW_FPS /\ new < old) =>
                    fps < LOW_FPS /\ dur >= LOW_FPS_SECONDS /\ new = 75
              /\ (fps >= VERY_LOW_FPS /\ fps < LOW_FPS /\ dur < LOW_FPS_SECONDS) =>
                    new = old
              /\ (fps >= VERY_LOW_FPS /\ fps < LOW_FPS /\ dur >= LOW_FPS_SECONDS) =>
                    new = 75
      ]_vars

\* Three ticks in a row at 25 FPS: the multiplier is at 75%.
C19_Witness ==
    /\ lastTick = "telemetry"
    /\ director.current_fps = 25
    /\ director.low_fps_duration = LOW_FPS_SECONDS
    /\ director.performance_throttle = 75

\* C20 as stated: on the tick on which the overrun clears while the throttle is
\* engaged, the spawn multiplier is not back at its unthrottled value.
C20_AsStated ==
    [][ ( /\ lastTick' = "telemetry"
          /\ director.performance_throttle < 100
          /\ director.current_fps < LOW_FPS
          /\ director'.current_fps >= LOW_FPS ) =>
          director'.performance_throttle < 100
      ]_vars

\* C20: while the throttle is engaged and the FPS is no longer low, the spawn
\* multiplier never decreases: it stays at its throttled value on every tick
\* whose FPS is at most 45, and returns to the unthrottled value in the one tick
\* whose FPS is above 45.
C20_RestoreAbove45 ==
    [][ ( /\ lastTick' = "telemetry"
          /\ director.performance_throttle < 100
          /\ director'.current_fps >= LOW_FPS ) =>
          /\ director'.performance_throttle >= director.performance_throttle
          /\ director'.current_fps > RESTORE_FPS => director'.performance_throttle = 100
          /\ director'.current_fps <= RESTORE_FPS =>
                director'.performance_throttle = director.performance_throttle
      ]_vars

\* The FPS is back at 40 after a drop below 20: the multiplier is still at 50%.
C20_Witness ==
    /\ lastTick = "telemetry"
    /\ director.current_fps = 40
    /\ director.low_fps_duration = 0
    /\ director.performance_throttle = 50

\* The steps of a frame, told by what they do.
IsDirectorRun == "Director" \in ran' /\ "Director" \notin ran
IsAttackResolution == lastAttack' /= lastAttack /\ lastAttack'.attacker \in Kinds
IsDeathRun == BagCardinality(respawnQueue') > BagCardinality(respawnQueue)
IsLevelingRun ==
    \/ BagCardinality(creatures') > BagCardinality(creatures)
    \/ ledger' /= ledger
    \/ affinity' /= affinity

\* C21 as stated: within a frame the Director runs after the progression of the
\* same frame.
C21_AsStated ==
    [][ IsDirectorRun => "Leveling" \in ran ]_vars

\* C21: within each frame the systems run in the order director, movement, combat
\* resolution, death, leveling: the Director runs first, before anything else of
\* the frame; attacks are resolved after movement and before death and leveling;
\* the ledger and the affinity are modified by the leveling systems only, after
\* the combat and the deaths of the frame, so they are the same at every attack
\* resolution of a frame.
C21_SystemOrder ==
    [][ /\ IsDirectorRun => ran = {}
        /\ IsAttackResolution =>
              /\ { "Director", "Movement" } \subseteq ran
              /\ ran \cap { "Combat", "Death", "Leveling" } = {}
              /\ ledger' = ledger /\ affinity' = affinity
        /\ IsDeathRun =>
              /\ { "Director", "Movement", "Combat" } \subseteq ran
              /\ ran \cap { "Death", "Leveling" } = {}
        /\ IsLevelingRun =>
              /\ { "Director", "Movement", "Combat", "Death" } \subseteq ran
              /\ "Leveling" \notin ran
      ]_vars

\* A frame in which a Fire Imp attacked and scored a crit after the Director and
\* the movement ran; the artifact of an earlier frame's leveling is in the ledger.
C21_Witness ==
    /\ CurrentSystem = "Combat"
    /\ ran = { "Director", "Tilemap", "Input", "Movement" }
    /\ lastAttack.attacker = "fire_imp" /\ lastAttack.tier = "Normal"
    /\ ledger /= << >>
    /\ lastTick = "telemetry"

\* The thresholds of the level table that a number of kills has reached.
ThresholdsReached(kills) ==
    Cardinality({ i \in 1..Len(KillsPerLevel) : KillsPerLevel[i] <= kills })

\* C23: after any sequence of kill credits to an alive creature its kills have
\* only increased, its level is between 1 and max_level, and the level is
\* min(max_level, 1 + the number of thresholds of the level table that the kills
\* have reached), also when the credits processed at once cross several
\* thresholds.
C23_LevelFromKills ==
    /\ [](\A e \in BagToSet(creatures) :
            /\ 1 <= e.level /\ e.level <= CreatureDef(e.kind).max_level
            /\ e.level = Min(CreatureDef(e.kind).max_level,
                             1 + ThresholdsReached(e.kills)))
    /\ [][ \A e \in BagToSet(creatures), f \in BagToSet(creatures') :
             f.kills >= e.kills ]_vars

\* A creature that has passed the last threshold and stays at max_level.
C23_Witness ==
    \E e \in BagToSet(creatures) :
        /\ e.kills > KillsPerLevel[Len(KillsPerLevel)]
        /\ e.level = CreatureDef(e.kind).max_level

\* C24: every creature keeps the base damage and the base hp it was spawned with,
\* across any sequence of kill credits and level-ups.
C24_BaseStatsImmutable ==
    \A e \in BagToSet(creatures) :
        /\ DecEq(e.base_damage, DecFromNat(CreatureDef(e.kind).base_damage))
        /\ DecEq(e.max_hp, DecFromNat(CreatureDef(e.kind).base_hp))

\* C25: an evolution merge removes exactly evolution_count creatures of the kind,
\* each of a level no higher than that of every creature of the kind that is kept,
\* and adds exactly one creature of the next evolution stage with level 1 and no
\* kills, so the number of creatures drops by evolution_count - 1.
C25_MergeLowestLevels ==
    [][ lastEvo'.result = "merged" =>
          LET k       == lastEvo'.kind
              n       == CreatureDef(k).evolution_count
              next    == CreatureDef(k).evolves_into
              removed == creatures (-) creatures'
              added   == creatures' (-) creatures
          IN  /\ BagCardinality(removed) = n
              /\ \A r \in BagToSet(removed) : r.kind = k
              /\ \A r \in BagToSet(removed), e \in BagToSet(creatures') :
                   e.kind = k => r.level <= e.level
              /\ BagCardinality(added) = 1
              /\ \A a \in BagToSet(added) :
                   a.kind = next /\ a.level = 1 /\ a.kills = 0
              /\ BagCardinality(creatures') = BagCardinality(creatures) - (n - 1)
      ]_vars

\* Of four fire imps the three of the lowest level were merged into a flame
\* fiend; the imp that had leveled up is kept.
C25_Witness ==
    /\ lastEvo = [ kind |-> "fire_imp", policy |-> "merge", result |-> "merged" ]
    /\ CountOf("fire_imp") = 1
    /\ \A e \in AliveOf("fire_imp") : e.level >= 2
    /\ CopiesIn(Fresh("flame_fiend"), creatures) = 1

\* The evolution decision as a function of the duplicates and the policy.
EvolutionDecision(duplicates, kind, policy) ==
    IF \/ CreatureDef(kind).evolves_into = ""
       \/ duplicates < CreatureDef(kind).evolution_count
      THEN "noop"
      ELSE IF policy = "keep" THEN "kept" ELSE "merged"

C28_AdjustmentClamped ==
    /\ [](\A i \in 1..Len(cards) :
            /\ cards[i].adj <= ADJUST_CEILING_PCT
            /\ cards[i].weight > 0
            /\ cards[i].weight * 100 <= cards[i].base * 100 * (100 + ADJUST_CEILING_PCT))
    /\ [][ \A i \in 1..Len(cards) :
             (i <= Len(cards') /\ cards'[i].adj /= cards[i].adj) =>
                 \E delta \in AdjustDeltas :
                     cards'[i].adj = Min(cards[i].adj + delta, ADJUST_CEILING_PCT)
          ]_vars

\* A card adjusted up to the ceiling: its weight is one and a half times the
\* weight it was registered with.
C28_Witness ==
    \E i \in 1..Len(cards) :
        /\ cards[i].adj = ADJUST_CEILING_PCT
        /\ cards[i].weight * 2 = cards[i].base * 100 * 3

\* The cumulative kill requirements of the levels 1..MaxProbeLevel: the sums over
\* i = 1..L of 25 * 1.2^(i-1).  The sums grow with L, so once one of them is above
\* the kills of the last wave no higher level can count.
MaxProbeLevel == 20

RECURSIVE RequirementsFrom(_, _, _)
RequirementsFrom(L, term, sum) ==
    IF L > MaxProbeLevel THEN << >>
    ELSE << DecAdd(sum, term) >>
           \o RequirementsFrom(L + 1, DecScale(term, 12, 1), DecAdd(sum, term))

CumulativeRequirements == RequirementsFrom(1, DecFromNat(25), DecFromNat(0))

\* min(100, 1 + the number of levels whose cumulative requirement is at most the
\* kills of the wave), with the check that the levels left out cannot count.
ExpectedPlayerLevel(w) ==
    LET reqs  == CumulativeRequirements
        kills == DecFromNat(w * KILLS_PER_WAVE)
    IN  IF ~DecLess(kills, reqs[MaxProbeLevel]) THEN 0
        ELSE Min(MAX_PLAYER_LEVEL,
                 1 + Cardinality({ L \in 1..MaxProbeLevel : ~DecLess(kills, reqs[L]) }))

\* C29: in calculateGameData the player-level loop of every wave 1..30 terminates
\* (an iteration either raises playerLevel, which stays at or below 100, or makes
\* the loop's condition false, and with the condition false the loop is left),
\* and the playerLevel of the wave's row is min(100, 1 + the number of levels L
\* whose cumulative kill requirement, the sum over i = 1..L of 25 * 1.2^(i-1), is
\* at most wave * 50); playerLevel never decreases from one wave to the next and
\* numCreatures is at least 1.
C29_PlayerLevelLoop ==
    /\ [](data /= << >> =>
            LET n == Len(data)
            IN  /\ data[n].wave = n /\ n <= WAVES
                /\ data[n].playerLevel = ExpectedPlayerLevel(n)
                /\ data[n].numCreatures >= 1
                /\ n > 1 => data[n - 1].playerLevel <= data[n].playerLevel)
    /\ [](pc = "while" => playerLevel <= MAX_PLAYER_LEVEL /\ currentWave <= WAVES)
    /\ [][ /\ (data' /= data /\ data' /= << >>) =>
                 data' = Append(data, data'[Len(data')])
           /\ (pc = "while" /\ pc' = "while") =>
                 \/ playerLevel' = playerLevel + 1
                 \/ /\ playerLevel' = playerLevel
                    /\ ~WhileCondition(cumulativeKillsNeeded',
                                       currentWave' * KILLS_PER_WAVE, playerLevel')
           /\ (pc = "while" /\ pc' = "for") =>
                 /\ ~WhileCondition(cumulativeKillsNeeded,
                                    currentWave * KILLS_PER_WAVE, playerLevel)
                 /\ Len(data') = currentWave /\ currentWave' = currentWave + 1
          ]_vars

\* A finished run over the 30 waves: the level rose to 15 and stayed the same
\* between some waves.
C29_Witness ==
    /\ pc = "idle" /\ Len(data) = WAVES
    /\ data[1].playerLevel = 2 /\ data[WAVES].playerLevel = 15
    /\ \E i \in 1..(WAVES - 1) : data[i].playerLevel = data[i + 1].playerLevel

\* spawnRate > killRate in a wave, on the values before rounding.
SpawnRateExceedsKillRate(exponent, w, level) ==
    LET p == Pressure(exponent, w, level) IN BigLess(p.den, p.num)

\* C30: once the visualizer has rendered, the warning 'Overwhelmed at Wave N' is
\* shown exactly when some wave 1..30 has a spawn rate greater than its kill rate,
\* and N is the first such wave.
C30_OverwhelmedWarning ==
    (pc = "idle") =>
        LET over == { w \in 1..WAVES :
                        SpawnRateExceedsKillRate(enemyHpExponent, w, data[w].playerLevel) }
        IN  /\ overwhelmWave /= 0 <=> over /= {}
            /\ over /= {} => /\ overwhelmWave \in over
                             /\ \A w \in over : overwhelmWave <= w

\* The slider was moved to 1.15: wave 1 is overwhelmed and named by the warning,
\* and a later wave has a pressure above 1 that rounds to 1.00.
C30_Witness ==
    /\ pc = "idle" /\ enemyHpExponent = 115
    /\ overwhelmWave = 1
    /\ \E w \in 1..WAVES :
         /\ data[w].pressure = 100
         /\ SpawnRateExceedsKillRate(enemyHpExponent, w, data[w].playerLevel)

====
